---- MODULE Spec2Model ----
(***************************************************************************)
(* State-machine model of the simulation core of src/main.c: the per-frame *)
(* sequence  player step -> UpdateEnemies -> UpdateBullets ->              *)
(* CheckBulletCollisions  of the main loop.                                *)
(*                                                                         *)
(* Fixed point: lengths are in 1/100 of a world unit (0.5f is 50), unit    *)
(* direction vectors in 1/1000 (1.0f is 1000), times in milliseconds       *)
(* (0.5f s is 500).                                                        *)
(***************************************************************************)
EXTENDS Integers, Sequences, FiniteSets, TLC

VARIABLES
    player,       \* Player struct (main.c:4-21)
    enemies,      \* Enemy enemies[] (main.c:109), indexed 0..enemyCount-1
    bullets,      \* Bullet bullets[MAX_BULLETS] (main.c:138)
    bulletCount,  \* int bulletCount (main.c:139)
    gameState,    \* GameState gameState (main.c:158)
    canShoot,     \* bool canShoot (main.c:163)
    shootTimer,   \* float shootTimer (main.c:164), ms
    deltaTime,    \* float deltaTime of the running frame (main.c:172), ms
    pc,           \* position of the main loop inside the frame
    frames,       \* number of frames started so far
    lastSlot,     \* history: slot written by the latest ShootBullet call, -1 if it returned early
    sinceHit,     \* history: delta time accumulated since each target's latest health decrement
    sinceShot,    \* history: delta time accumulated since each enemy's latest shot
    cubicmap,     \* the wall cells of the map image (main.c:141-146)
    keys,         \* history: the movement and jump keys polled in the latest frame
    probe         \* a sphere handed to CheckCollisionSphereBox, and the answer

vars == <<player, enemies, bullets, bulletCount, gameState, canShoot, shootTimer,
          deltaTime, pc, frames, cubicmap, lastSlot, sinceHit, sinceShot, keys, probe>>

---------------------------------------------------------------------------
(* Bounds of the model *)

\* capacity of the bullet pool (MAX_BULLETS, main.c:53) in the short runs
PoolSize == 3

enemyCount == 2

\* frames of a short run
MaxFrames == 9

SinceCap == 1000

\* cap of the time counted since a shot
ShotCap == 2000

\* frames of a run with a whole jump in it
MaxAirFrames == 45

\* the frames in which the jump key may be pressed in such a run
JumpFrames == 2

\* capacity of the pool, frames, and the frames in which the player may
\* click, in a run with the player shooting an enemy down
DuelPool == 5

\* capacity of the pool and frames in a run with the enemies shooting the
\* player down
SiegePool == 12

SiegeFrames == 25

\* frames of a run in which bullets fly up to the edge of the map
EdgeFrames == 26

\* the number at which the count of frames is held in a run without end
StillFrames == 4

\* frames of a run in which the player steps aside and shoots along a wall,
\* and the frames in which he may step or jump
GrazeFrames == 12

StepFrames == 2

DuelFrames == 26

ShootFrames == 7

---------------------------------------------------------------------------
(* Program constants, in model units *)

ENEMY_SHOOT_COOLDOWN == 2000

BULLET_SPEED == 30

BULLET_RADIUS == 15

PlayerSpeed == 25

PlayerJumpForce == 20

PlayerGravity == 1

PlayerShootCooldown == 500

ActorSize == 50

EnemySpeed == 13

EnemyHealth == 30

PlayerHealth == 100

BulletDamage == 10

PlayerHitTime == 500

EnemyHitTime == 200

GroundLevel == 50

GroundTolerance == 10

StandOff == 300

ShootRange == 1000

BulletMaxRange == 5000

WallThreshold == 50

\* Size of the map image in cells (image.width, image.height, main.c:151-152);
\* the image is not part of src/, so the size is a bound of the model.
MapWidth == 32

MapHeight == 16

---------------------------------------------------------------------------
(* Vectors and fixed-point arithmetic *)

Vec(x, y, z) == [x |-> x, y |-> y, z |-> z]

mapPosition == Vec(-1600, 0, -800)

\* C's (int) cast and integer division: truncation toward zero (b > 0)
TruncDiv(a, b) == IF a >= 0 THEN a \div b ELSE -((-a) \div b)

\* float division, rounded to the nearest representable model value (b > 0)
RoundDiv(a, b) == IF a >= 0 THEN (2 * a + b) \div (2 * b) ELSE -((2 * (-a) + b) \div (2 * b))

RECURSIVE SqrtIter(_, _, _)
SqrtIter(n, lo, hi) ==
    IF lo >= hi THEN lo
    ELSE LET mid == (lo + hi + 1) \div 2
         IN  IF mid * mid <= n THEN SqrtIter(n, mid, hi) ELSE SqrtIter(n, lo, mid - 1)

\* sqrtf, rounded down
Isqrt(n) == SqrtIter(n, 0, 46000)

Vector3Subtract(a, b) == Vec(a.x - b.x, a.y - b.y, a.z - b.z)

LengthSqr(v) == v.x * v.x + v.y * v.y + v.z * v.z

\* Vector3Normalize: v / |v|, or v itself when |v| = 0; the result is in 1/1000.
\* The length is taken in tenths of the input unit to keep three digits.
Vector3Normalize(v) ==
    LET len10 == Isqrt(100 * LengthSqr(v))
    IN  IF len10 = 0 THEN v
        ELSE Vec(RoundDiv(10000 * v.x, len10), RoundDiv(10000 * v.y, len10),
                 RoundDiv(10000 * v.z, len10))

\* component of (unit direction * speed), back in 1/100 length units
ScaleDir(d, speed) == RoundDiv(d * speed, 1000)

Max(a, b) == IF a >= b THEN a ELSE b

Min(a, b) == IF a <= b THEN a ELSE b

Abs(a) == IF a >= 0 THEN a ELSE -a

---------------------------------------------------------------------------
(* Map (resources/map.png, one grey level per cell) *)

WallCells == {<<18, 8>>, <<17, 9>>}

\* the same map with a wall cell where the player starts
PitCells == WallCells \cup {<<16, 6>>}

\* the same map with a wall cell farther from the player's start
BumpCells == WallCells \cup {<<21, 8>>}

MapPixel(cx, cz) == IF <<cx, cz>> \in cubicmap THEN 255 ELSE 0

\* InMap without the lower limits
InMap_NoLowerLimit(cx, cz) == cx < MapWidth /\ cz < MapHeight

\* main.c:573-574, 655-656, 722-723
InMap(cx, cz) == cx >= 0 /\ cz >= 0 /\ cx < MapWidth /\ cz < MapHeight

IsWall(cx, cz) == MapPixel(cx, cz) > WallThreshold

Box(lo, hi) == [min |-> lo, max |-> hi]

\* GetModelBoundingBox(model) translated by mapPosition: the cubicmap mesh
\* spans [-0.5, width-0.5] x [0,1] x [-0.5, height-0.5]
MapBounds ==
    Box(Vec(mapPosition.x - 50, mapPosition.y, mapPosition.z - 50),
        Vec(mapPosition.x + 100 * MapWidth - 50, mapPosition.y + 100,
            mapPosition.z + 100 * MapHeight - 50))

CellBounds(cx, cz) ==
    Box(Vec(mapPosition.x + 100 * cx - 50, mapPosition.y, mapPosition.z + 100 * cz - 50),
        Vec(mapPosition.x + 100 * cx - 50 + 100, mapPosition.y + 100,
            mapPosition.z + 100 * cz - 50 + 100))

CellOf(pos) == [x |-> TruncDiv(pos.x - mapPosition.x, 100), z |-> TruncDiv(pos.z - mapPosition.z, 100)]

\* the 3x3 window in the loops' order: z outer, x inner
Window == << <<-1, -1>>, <<-1, 0>>, <<-1, 1>>, <<0, -1>>, <<0, 0>>, <<0, 1>>,
             <<1, -1>>, <<1, 0>>, <<1, 1>> >>

---------------------------------------------------------------------------
(* Collision primitives *)

GetActorBoundingBox(position) ==
    Box(Vec(position.x - ActorSize \div 2, position.y, position.z - ActorSize \div 2),
        Vec(position.x + ActorSize \div 2, position.y + ActorSize, position.z + ActorSize \div 2))

CheckCollisionBoxes(a, b) ==
    /\ a.max.x >= b.min.x /\ a.min.x <= b.max.x
    /\ ~(a.max.y < b.min.y \/ a.min.y > b.max.y)
    /\ ~(a.max.z < b.min.z \/ a.min.z > b.max.z)

Clamp(v, lo, hi) == Max(lo, Min(v, hi))

\* CheckCollisionSphereBox with an inclusive comparison
CheckCollisionSphereBox_Inclusive(center, radius, box) ==
    LET cx == Clamp(center.x, box.min.x, box.max.x)
        cy == Clamp(center.y, box.min.y, box.max.y)
        cz == Clamp(center.z, box.min.z, box.max.z)
        distanceSquared == (cx - center.x) * (cx - center.x) + (cy - center.y) * (cy - center.y)
                           + (cz - center.z) * (cz - center.z)
    IN  distanceSquared <= radius * radius

\* main.c:758-775
CheckCollisionSphereBox(center, radius, box) ==
    LET cx == Clamp(center.x, box.min.x, box.max.x)
        cy == Clamp(center.y, box.min.y, box.max.y)
        cz == Clamp(center.z, box.min.z, box.max.z)
        distanceSquared == (cx - center.x) * (cx - center.x) + (cy - center.y) * (cy - center.y)
                           + (cz - center.z) * (cz - center.z)
    IN  distanceSquared < radius * radius

\* the cells of the 3x3 window around the cell of `pos` that pass the range
\* test and are looked up in the image (main.c:573-578, 655-660, 722-727)
CellsRead(pos) ==
    {<<CellOf(pos).x + Window[k][2], CellOf(pos).z + Window[k][1]>> :
        k \in {n \in 1..9 : InMap(CellOf(pos).x + Window[n][2], CellOf(pos).z + Window[n][1])}}

\* a wall cell of the 3x3 window around `cell`, inside the map
WallAt(cell, k) ==
    LET cx == cell.x + Window[k][2]
        cz == cell.z + Window[k][1]
    IN  InMap(cx, cz) /\ IsWall(cx, cz)

WindowBounds(cell, k) == CellBounds(cell.x + Window[k][2], cell.z + Window[k][1])

CheckCollisionEnemyWithMap(position) ==
    LET enemyBounds == GetActorBoundingBox(position)
    IN  IF ~CheckCollisionBoxes(enemyBounds, MapBounds) THEN TRUE
        ELSE \E k \in 1..9 : WallAt(CellOf(position), k)
                             /\ CheckCollisionBoxes(enemyBounds, WindowBounds(CellOf(position), k))

CheckCollisionBulletWithMap(bullet) ==
    IF ~CheckCollisionSphereBox(bullet.position, bullet.radius, MapBounds) THEN TRUE
    ELSE \E k \in 1..9 : WallAt(CellOf(bullet.position), k)
                         /\ CheckCollisionSphereBox(bullet.position, bullet.radius,
                                                    WindowBounds(CellOf(bullet.position), k))

\* returns the collision flag and the player with isGrounded updated (main.c:611-615)
CheckCollisionPlayerWithMap(p) ==
    LET playerBounds == GetActorBoundingBox(p.position)
        cell == CellOf(p.position)
        Touch(k) == WallAt(cell, k) /\ CheckCollisionBoxes(playerBounds, WindowBounds(cell, k))
        IsGround == Abs(p.position.y - (mapPosition.y + 100)) < GroundTolerance
        groundContact == IsGround /\ \E k \in 1..9 : Touch(k)
        collision == ~IsGround /\ \E k \in 1..9 : Touch(k)
    IN  IF ~CheckCollisionBoxes(playerBounds, MapBounds)
        THEN [collision |-> TRUE, player |-> p]
        ELSE [collision |-> collision,
              player |-> IF groundContact \/ p.position.y <= GroundLevel
                         THEN [p EXCEPT !.isGrounded = TRUE] ELSE p]

---------------------------------------------------------------------------
(* Player step: main.c:188-272 *)

\* PlayerHitDecay clearing the flag only below zero
PlayerHitDecay_Strict(p, dt) ==
    IF p.isHit
    THEN LET t == p.hitTimer - dt
         IN  [p EXCEPT !.hitTimer = t, !.isHit = ~(t < 0)]
    ELSE p

\* main.c:188-194
PlayerHitDecay(p, dt) ==
    IF p.isHit
    THEN LET t == p.hitTimer - dt
         IN  [p EXCEPT !.hitTimer = t, !.isHit = ~(t <= 0)]
    ELSE p

\* main.c:196-226: both axes are applied, then one collision test restores the whole position
MovePlayer(p, inp) ==
    LET previousPosition == p.position
        x1 == IF inp.right THEN p.position.x + PlayerSpeed
              ELSE IF inp.left THEN p.position.x - PlayerSpeed ELSE p.position.x
        d1 == IF inp.right THEN 1 ELSE IF inp.left THEN 3 ELSE p.direction
        z1 == IF inp.down THEN p.position.z + PlayerSpeed
              ELSE IF inp.up THEN p.position.z - PlayerSpeed ELSE p.position.z
        d2 == IF inp.down THEN 0 ELSE IF inp.up THEN 2 ELSE d1
        moved == [p EXCEPT !.position.x = x1, !.position.z = z1, !.direction = d2]
        res == CheckCollisionPlayerWithMap(moved)
    IN  IF res.collision THEN [res.player EXCEPT !.position = previousPosition]
        ELSE res.player

\* Jump without the isGrounded test
Jump_Always(p, pressed) ==
    IF pressed
    THEN [p EXCEPT !.velocity.y = PlayerJumpForce, !.isGrounded = FALSE]
    ELSE p

\* main.c:228-233
Jump(p, pressed) ==
    IF pressed /\ p.isGrounded
    THEN [p EXCEPT !.velocity.y = PlayerJumpForce, !.isGrounded = FALSE]
    ELSE p

\* main.c:815-866: the landing scan of the 3x3 window; the outer loop stops after
\* the first row once isGrounded is set (by a landing or already by the
\* collision test's side effect)
LandingScan(p) ==
    LET playerBounds == GetActorBoundingBox(p.position)
        cell == CellOf(p.position)
        Lands(k) == /\ WallAt(cell, k)
                    /\ playerBounds.min.y <= WindowBounds(cell, k).max.y
                    /\ playerBounds.min.y >= WindowBounds(cell, k).max.y - GroundTolerance
                    /\ CheckCollisionBoxes(playerBounds, WindowBounds(cell, k))
        rows == IF p.isGrounded THEN 1..3 ELSE 1..9
    IN  IF \E k \in rows : Lands(k)
        THEN [p EXCEPT !.isGrounded = TRUE, !.position.y = mapPosition.y + 100,
                       !.velocity.y = 0]
        ELSE p

\* UpdatePlayerPhysics applying gravity twice when airborne
UpdatePlayerPhysics_Twice(p) ==
    LET p1 == IF ~p.isGrounded THEN [p EXCEPT !.velocity.y = p.velocity.y - 2 * PlayerGravity]
              ELSE IF p.velocity.y < 0 THEN [p EXCEPT !.velocity.y = 0] ELSE p
        p2 == [p1 EXCEPT !.position.y = p1.position.y + p1.velocity.y]
    IN  IF p2.position.y < GroundLevel
        THEN [p2 EXCEPT !.position.y = GroundLevel, !.velocity.y = 0, !.isGrounded = TRUE]
        ELSE LET p3 == [p2 EXCEPT !.isGrounded = FALSE]
             IN  IF p3.velocity.y < 0
                 THEN LandingScan(CheckCollisionPlayerWithMap(p3).player)
                 ELSE p3

\* UpdatePlayerPhysics without the floor test
UpdatePlayerPhysics_NoFloor(p) ==
    LET p1 == IF ~p.isGrounded THEN [p EXCEPT !.velocity.y = p.velocity.y - PlayerGravity]
              ELSE IF p.velocity.y < 0 THEN [p EXCEPT !.velocity.y = 0] ELSE p
        p2 == [p1 EXCEPT !.position.y = p1.position.y + p1.velocity.y]
        p3 == [p2 EXCEPT !.isGrounded = FALSE]
    IN  IF p3.velocity.y < 0
        THEN LandingScan(CheckCollisionPlayerWithMap(p3).player)
        ELSE p3

\* main.c:778-871
UpdatePlayerPhysics(p) ==
    LET p1 == IF ~p.isGrounded THEN [p EXCEPT !.velocity.y = p.velocity.y - PlayerGravity]
              ELSE IF p.velocity.y < 0 THEN [p EXCEPT !.velocity.y = 0] ELSE p
        p2 == [p1 EXCEPT !.position.y = p1.position.y + p1.velocity.y]
    IN  IF p2.position.y < GroundLevel
        THEN [p2 EXCEPT !.position.y = GroundLevel, !.velocity.y = 0, !.isGrounded = TRUE]
        ELSE LET p3 == [p2 EXCEPT !.isGrounded = FALSE]
             IN  IF p3.velocity.y < 0
                 THEN LandingScan(CheckCollisionPlayerWithMap(p3).player)
                 ELSE p3

---------------------------------------------------------------------------
(* Bullet pool: main.c:883-919 *)

\* main.c:53, 138: the capacity of the pool the run was started with
MAX_BULLETS == Cardinality(DOMAIN bullets)

Slots == 0..(MAX_BULLETS - 1)

NoBullet == [position |-> Vec(0, 0, 0), direction |-> Vec(0, 0, 0), speed |-> 0,
             radius |-> 0, active |-> FALSE, fromPlayer |-> FALSE]

NewBullet(position, direction, fromPlayer) ==
    [position |-> position, direction |-> direction, speed |-> BULLET_SPEED,
     radius |-> BULLET_RADIUS, active |-> TRUE, fromPlayer |-> fromPlayer]

\* PoolFull off by one
PoolFull_OffByOne(count) == count > MAX_BULLETS

\* PoolFull never stopping a shot
PoolFull_Never(count) == FALSE

\* main.c:886: "Don't shoot if bullet array is full"
PoolFull(count) == count >= MAX_BULLETS

\* FindInactive taking the highest inactive slot
FindInactive_Highest(bs) ==
    IF \E i \in Slots : ~bs[i].active
    THEN CHOOSE i \in Slots : ~bs[i].active /\ \A j \in Slots : j > i => bs[j].active
    ELSE -1

\* main.c:889-897: lowest inactive slot, -1 if none
FindInactive(bs) ==
    IF \E i \in Slots : ~bs[i].active
    THEN CHOOSE i \in Slots : ~bs[i].active /\ \A j \in Slots : j < i => bs[j].active
    ELSE -1

\* pool = [bullets, bulletCount, slot]; slot records the index written (-1: none)
ShootBullet(pool, position, direction, fromPlayer) ==
    IF PoolFull(pool.bulletCount) THEN [pool EXCEPT !.slot = -1]
    ELSE LET found == FindInactive(pool.bullets)
             bulletIndex == IF found = -1 THEN pool.bulletCount % MAX_BULLETS ELSE found
         IN  [bullets |-> [i \in Slots |-> IF i = bulletIndex
                                            THEN NewBullet(position, direction, fromPlayer)
                                            ELSE pool.bullets[i]],
              bulletCount |-> IF found = -1 THEN pool.bulletCount ELSE pool.bulletCount + 1,
              slot |-> bulletIndex]

\* main.c:248-260: aim at the mouse point projected on the plane of the muzzle
PlayerAim(p, aim) ==
    LET muzzle == Vec(p.position.x, p.position.y + 50, p.position.z)
        targetPoint == Vec(aim.x, p.position.y + 50, aim.z)
        d1 == Vector3Normalize(Vector3Subtract(targetPoint, muzzle))
    IN  Vector3Normalize([d1 EXCEPT !.y = 0])

\* main.c:235-241: the cooldown, as [canShoot, shootTimer]
PlayerCooldown(can, timer, dt) ==
    IF ~can
    THEN [canShoot |-> (timer - dt <= 0), shootTimer |-> timer - dt]
    ELSE [canShoot |-> can, shootTimer |-> timer]

---------------------------------------------------------------------------
(* UpdateEnemies: main.c:944-1017 *)

EnemyIdx == 0..(enemyCount - 1)

\* EnemyHitDecay counting the timer up
EnemyHitDecay_Up(e, dt) ==
    IF e.isHit
    THEN LET t == e.hitTimer + dt
         IN  [e EXCEPT !.hitTimer = t, !.isHit = ~(t <= 0)]
    ELSE e

\* EnemyHitDecay dropping the flag after one frame, whatever the timer
EnemyHitDecay_OneFrame(e, dt) ==
    IF e.isHit
    THEN [e EXCEPT !.hitTimer = e.hitTimer - dt, !.isHit = FALSE]
    ELSE e

\* main.c:950-958
EnemyHitDecay(e, dt) ==
    IF e.isHit
    THEN LET t == e.hitTimer - dt
         IN  [e EXCEPT !.hitTimer = t, !.isHit = ~(t <= 0)]
    ELSE e

\* main.c:961-968: the step toward the player
EnemyStep(e, p) ==
    LET direction == Vector3Subtract(p.position, e.position)
        n == Vector3Normalize(direction)
    IN  IF LengthSqr(direction) > 0
        THEN Vec(ScaleDir(n.x, EnemySpeed), ScaleDir(n.y, EnemySpeed), ScaleDir(n.z, EnemySpeed))
        ELSE direction

\* EnemyMove with one test after both axes, restoring the whole position
EnemyMove_Whole(position, d) ==
    LET moved == [position EXCEPT !.x = position.x + d.x, !.z = position.z + d.z]
    IN  IF CheckCollisionEnemyWithMap(moved) THEN position ELSE moved

\* EnemyMove that never takes the Z move back
EnemyMove_KeepZ(position, d) ==
    LET previousPosition == position
        movedX == [position EXCEPT !.x = position.x + d.x]
        afterX == IF CheckCollisionEnemyWithMap(movedX)
                  THEN [movedX EXCEPT !.x = previousPosition.x] ELSE movedX
    IN  [afterX EXCEPT !.z = afterX.z + d.z]

\* main.c:973-994: X then Z, each tested and restored on its own
EnemyMove(position, d) ==
    LET previousPosition == position
        movedX == [position EXCEPT !.x = position.x + d.x]
        afterX == IF CheckCollisionEnemyWithMap(movedX)
                  THEN [movedX EXCEPT !.x = previousPosition.x] ELSE movedX
        movedZ == [afterX EXCEPT !.z = afterX.z + d.z]
    IN  IF CheckCollisionEnemyWithMap(movedZ)
        THEN [movedZ EXCEPT !.z = previousPosition.z] ELSE movedZ

\* main.c:971
TooFar(e, p) == LengthSqr(Vector3Subtract(p.position, e.position)) > StandOff * StandOff

\* main.c:999: distance is the one measured before the move
InRange(e, p) == LengthSqr(Vector3Subtract(p.position, e.position)) < ShootRange * ShootRange

\* main.c:1001-1005
EnemyAim(e, p) ==
    Vector3Normalize(Vector3Subtract(Vec(p.position.x, p.position.y + 50, p.position.z),
                                     Vec(e.position.x, e.position.y + 50, e.position.z)))

\* UpdateEnemy without the range test of the shot
UpdateEnemy_AnyRange(e, p, pool, dt, jitter) ==
    LET e1 == EnemyHitDecay(e, dt)
        e2 == IF TooFar(e1, p)
              THEN [e1 EXCEPT !.position = EnemyMove(e1.position, EnemyStep(e1, p))]
              ELSE e1
        e3 == [e2 EXCEPT !.shootTimer = e2.shootTimer - dt]
    IN  IF e3.shootTimer <= 0
        THEN [enemy |-> [e3 EXCEPT !.shootTimer = e3.shootCooldown + jitter],
              pool |-> ShootBullet(pool, Vec(e3.position.x, e3.position.y + 50, e3.position.z),
                                   EnemyAim(e3, p), FALSE)]
        ELSE [enemy |-> e3, pool |-> pool]

\* UpdateEnemy with the shooting logic inside the branch that moves
UpdateEnemy_MoveOrShoot(e, p, pool, dt, jitter) ==
    LET e1 == EnemyHitDecay(e, dt)
        e2 == [e1 EXCEPT !.position = EnemyMove(e1.position, EnemyStep(e1, p))]
        e3 == [e2 EXCEPT !.shootTimer = e2.shootTimer - dt]
    IN  IF ~TooFar(e1, p) THEN [enemy |-> e1, pool |-> pool]
        ELSE IF e3.shootTimer <= 0 /\ InRange(e1, p)
        THEN [enemy |-> [e3 EXCEPT !.shootTimer = e3.shootCooldown + jitter],
              pool |-> ShootBullet(pool, Vec(e3.position.x, e3.position.y + 50, e3.position.z),
                                   EnemyAim(e3, p), FALSE)]
        ELSE [enemy |-> e3, pool |-> pool]

\* one iteration of the loop for an active enemy: [enemy, pool]
UpdateEnemy(e, p, pool, dt, jitter) ==
    LET e1 == EnemyHitDecay(e, dt)
        e2 == IF TooFar(e1, p)
              THEN [e1 EXCEPT !.position = EnemyMove(e1.position, EnemyStep(e1, p))]
              ELSE e1
        e3 == [e2 EXCEPT !.shootTimer = e2.shootTimer - dt]
    IN  IF e3.shootTimer <= 0 /\ InRange(e1, p)
        THEN [enemy |-> [e3 EXCEPT !.shootTimer = e3.shootCooldown + jitter],
              pool |-> ShootBullet(pool, Vec(e3.position.x, e3.position.y + 50, e3.position.z),
                                   EnemyAim(e3, p), FALSE)]
        ELSE [enemy |-> e3, pool |-> pool]

\* the loop from index i on: st = [enemies, pool]
RECURSIVE EnemiesLoop(_, _, _, _, _)
EnemiesLoop(i, st, p, dt, jit) ==
    IF i >= enemyCount THEN st
    ELSE IF ~st.enemies[i].active THEN EnemiesLoop(i + 1, st, p, dt, jit)
    ELSE LET r == UpdateEnemy(st.enemies[i], p, st.pool, dt, jit[i])
         IN  EnemiesLoop(i + 1, [enemies |-> [st.enemies EXCEPT ![i] = r.enemy],
                                 pool |-> r.pool], p, dt, jit)

---------------------------------------------------------------------------
(* UpdateBullets: main.c:922-941 *)

\* AdvanceBullet moving by direction * speed * dt, dt in frames of 0.1 s
AdvanceBullet_Timed(b) ==
    LET pos == Vec(b.position.x + ScaleDir(b.direction.x, (b.speed * deltaTime) \div 100),
                   b.position.y + ScaleDir(b.direction.y, (b.speed * deltaTime) \div 100),
                   b.position.z + ScaleDir(b.direction.z, (b.speed * deltaTime) \div 100))
    IN  [b EXCEPT !.position = pos,
                  !.active = ~(LengthSqr(pos) > BulletMaxRange * BulletMaxRange)]

\* main.c:929-939
AdvanceBullet(b) ==
    LET pos == Vec(b.position.x + ScaleDir(b.direction.x, b.speed),
                   b.position.y + ScaleDir(b.direction.y, b.speed),
                   b.position.z + ScaleDir(b.direction.z, b.speed))
    IN  [b EXCEPT !.position = pos,
                  !.active = ~(LengthSqr(pos) > BulletMaxRange * BulletMaxRange)]

UpdateBulletsAll(bs, count) ==
    [i \in Slots |-> IF i < count /\ bs[i].active THEN AdvanceBullet(bs[i]) ELSE bs[i]]

---------------------------------------------------------------------------
(* CheckBulletCollisions: main.c:1020-1084 *)

\* DamagePlayer without the isHit gate
DamagePlayer_NoGate(p) ==
    [p EXCEPT !.health = p.health - BulletDamage, !.isHit = TRUE, !.hitTimer = PlayerHitTime]

\* main.c:1040-1045
DamagePlayer(p) ==
    IF ~p.isHit
    THEN [p EXCEPT !.health = p.health - BulletDamage, !.isHit = TRUE, !.hitTimer = PlayerHitTime]
    ELSE p

\* DamageEnemy with the player's invulnerability period
DamageEnemy_LongWindow(e) ==
    IF ~e.isHit
    THEN [e EXCEPT !.health = e.health - BulletDamage, !.isHit = TRUE, !.hitTimer = PlayerHitTime,
                   !.active = ~(e.health - BulletDamage <= 0)]
    ELSE e

\* DamageEnemy keeping an enemy of health 0 alive
DamageEnemy_LateDeath(e) ==
    IF ~e.isHit
    THEN [e EXCEPT !.health = e.health - BulletDamage, !.isHit = TRUE, !.hitTimer = EnemyHitTime,
                   !.active = ~(e.health - BulletDamage < 0)]
    ELSE e

\* main.c:1063-1074
DamageEnemy(e) ==
    IF ~e.isHit
    THEN [e EXCEPT !.health = e.health - BulletDamage, !.isHit = TRUE, !.hitTimer = EnemyHitTime,
                   !.active = ~(e.health - BulletDamage <= 0)]
    ELSE e

StrikesPlayer(b, p) ==
    CheckCollisionSphereBox(b.position, b.radius, GetActorBoundingBox(p.position))

\* StrikesEnemy without the test of `active`
StrikesEnemy_Corpse(b, e) ==
    CheckCollisionSphereBox(b.position, b.radius, GetActorBoundingBox(e.position))

\* main.c:1057-1060
StrikesEnemy(b, e) ==
    e.active /\ CheckCollisionSphereBox(b.position, b.radius, GetActorBoundingBox(e.position))

\* CollideBullet hitting every enemy the bullet overlaps
CollideBullet_AllTargets(st, i) ==
    LET b == st.bullets[i]
        off == [st.bullets EXCEPT ![i].active = FALSE]
    IN  IF CheckCollisionBulletWithMap(b) THEN [st EXCEPT !.bullets = off]
        ELSE IF ~b.fromPlayer
        THEN IF StrikesPlayer(b, st.player)
             THEN [st EXCEPT !.player = DamagePlayer(st.player), !.bullets = off]
             ELSE st
        ELSE IF \E j \in EnemyIdx : StrikesEnemy(b, st.enemies[j])
        THEN [st EXCEPT !.enemies = [j \in EnemyIdx |-> IF StrikesEnemy(b, st.enemies[j])
                                                        THEN DamageEnemy(st.enemies[j])
                                                        ELSE st.enemies[j]],
                        !.bullets = off]
        ELSE st

\* CollideBullet testing every bullet against the player and the enemies
CollideBullet_AnyTarget(st, i) ==
    LET b == st.bullets[i]
        off == [st.bullets EXCEPT ![i].active = FALSE]
    IN  IF CheckCollisionBulletWithMap(b) THEN [st EXCEPT !.bullets = off]
        ELSE IF StrikesPlayer(b, st.player)
        THEN [st EXCEPT !.player = DamagePlayer(st.player), !.bullets = off]
        ELSE IF \E j \in EnemyIdx : StrikesEnemy(b, st.enemies[j])
        THEN LET j == CHOOSE j \in EnemyIdx : /\ StrikesEnemy(b, st.enemies[j])
                                              /\ \A k \in EnemyIdx : k < j => ~StrikesEnemy(b, st.enemies[k])
             IN  [st EXCEPT !.enemies[j] = DamageEnemy(st.enemies[j]), !.bullets = off]
        ELSE st

\* CollideBullet with the map test after the actors'
CollideBullet_MapLast(st, i) ==
    LET b == st.bullets[i]
        off == [st.bullets EXCEPT ![i].active = FALSE]
    IN  IF ~b.fromPlayer /\ StrikesPlayer(b, st.player)
        THEN [st EXCEPT !.player = DamagePlayer(st.player), !.bullets = off]
        ELSE IF b.fromPlayer /\ \E j \in EnemyIdx : StrikesEnemy(b, st.enemies[j])
        THEN LET j == CHOOSE j \in EnemyIdx : /\ StrikesEnemy(b, st.enemies[j])
                                              /\ \A k \in EnemyIdx : k < j => ~StrikesEnemy(b, st.enemies[k])
             IN  [st EXCEPT !.enemies[j] = DamageEnemy(st.enemies[j]), !.bullets = off]
        ELSE IF CheckCollisionBulletWithMap(b) THEN [st EXCEPT !.bullets = off]
        ELSE st

\* one iteration of the loop, for an active bullet i: st = [bullets, player, enemies]
CollideBullet(st, i) ==
    LET b == st.bullets[i]
        off == [st.bullets EXCEPT ![i].active = FALSE]
    IN  IF CheckCollisionBulletWithMap(b) THEN [st EXCEPT !.bullets = off]
        ELSE IF ~b.fromPlayer
        THEN IF StrikesPlayer(b, st.player)
             THEN [st EXCEPT !.player = DamagePlayer(st.player), !.bullets = off]
             ELSE st
        ELSE IF \E j \in EnemyIdx : StrikesEnemy(b, st.enemies[j])
        THEN LET j == CHOOSE j \in EnemyIdx : /\ StrikesEnemy(b, st.enemies[j])
                                              /\ \A k \in EnemyIdx : k < j => ~StrikesEnemy(b, st.enemies[k])
             IN  [st EXCEPT !.enemies[j] = DamageEnemy(st.enemies[j]), !.bullets = off]
        ELSE st

RECURSIVE CollisionsLoop(_, _, _)
CollisionsLoop(i, st, count) ==
    IF i >= count \/ i >= MAX_BULLETS THEN st
    ELSE IF ~st.bullets[i].active THEN CollisionsLoop(i + 1, st, count)
    ELSE CollisionsLoop(i + 1, CollideBullet(st, i), count)

---------------------------------------------------------------------------
(* Initial state: main.c:89-165 *)

InitPlayer ==
    [position |-> Vec(0, 50, -200), direction |-> 0, velocity |-> Vec(0, 0, 0),
     isGrounded |-> TRUE, health |-> PlayerHealth, isHit |-> FALSE, hitTimer |-> 0]

\* main.c:119-135: x and z are GetRandomValue(0,10) + 0.5, shootTimer is
\* GetRandomValue(0,100)/100 * ENEMY_SHOOT_COOLDOWN
InitEnemy(x, z, timer) ==
    [position |-> Vec(x, 50, z), shootTimer |-> timer, shootCooldown |-> ENEMY_SHOOT_COOLDOWN,
     active |-> TRUE, health |-> EnemyHealth, isHit |-> FALSE, hitTimer |-> 0]

\* two enemies next to the player, one firing at once, one a little later
NearStarts == {InitEnemy(50, 50, 0), InitEnemy(50, 50, 200)}

\* enemies that walk toward the player past the walls of WallCells
FarStarts == {InitEnemy(350, 50, 2000), InitEnemy(150, 250, 2000)}

NoKeys == [right |-> FALSE, left |-> FALSE, down |-> FALSE, up |-> FALSE, jump |-> FALSE]

\* no sphere has been tested
NoProbe == [center |-> Vec(0, 0, 0), done |-> FALSE, result |-> FALSE]

\* the state after initialisation but for the map
InitOn(starts, size) ==
    /\ player = InitPlayer
    /\ enemies \in [EnemyIdx -> starts]
    /\ bullets = [i \in 0..(size - 1) |-> NoBullet]
    /\ bulletCount = 0
    /\ gameState = "GAME_PLAYING"
    /\ canShoot = TRUE
    /\ shootTimer = 0
    /\ deltaTime = 0
    /\ pc = "frame"
    /\ frames = 0
    /\ lastSlot = -2
    /\ sinceHit = [p |-> -1, e |-> [i \in EnemyIdx |-> -1]]
    /\ sinceShot = [i \in EnemyIdx |-> -1]
    /\ keys = NoKeys

\* the state after initialisation, with a pool of `size` slots
InitGame(starts, size) == InitOn(starts, size) /\ cubicmap = WallCells

InitSized(starts, size) == InitGame(starts, size) /\ probe = NoProbe

InitWith(starts) == InitSized(starts, PoolSize)

\* an enemy next to the player that fires at once, an enemy out of range
\* whose cooldown runs out soon
VolleyStarts == {InitEnemy(50, 50, 0), InitEnemy(1050, 1050, 200)}

\* an enemy in the last row of the map, an enemy that starts outside the map
EdgeStarts == {InitEnemy(50, 750, 2000), InitEnemy(1050, 1050, 2000)}

\* two enemies next to the player that fire in turns
SiegeStarts == {InitEnemy(50, 50, 0), InitEnemy(50, 50, 1000)}

\* an enemy in free line of fire 7.5 away from the player, an enemy in the far corner
DuelStarts == {InitEnemy(50, 550, 2000), InitEnemy(1050, 1050, 2000)}

Init == InitWith(NearStarts)

---------------------------------------------------------------------------
(* Inputs of a frame: main.c:172 (GetFrameTime), 174, 200-220, 229, 243-249 *)

NoInput(dt) ==
    [dt |-> dt, right |-> FALSE, left |-> FALSE, down |-> FALSE, up |-> FALSE,
     jump |-> FALSE, shoot |-> FALSE, aim |-> [x |-> 0, z |-> 0], keyP |-> FALSE]

ShootAt(dt, x, z) == [NoInput(dt) EXCEPT !.shoot = TRUE, !.aim = [x |-> x, z |-> z]]

\* a short or a long frame, each with or without a click on the near enemies
CombatInputs == {NoInput(100), NoInput(500), ShootAt(100, 50, 50), ShootAt(500, 50, 50)}

\* GetRandomValue(-50, 50) / 100.0f: the two extremes
Jitters == {-500, 500}

\* the shortest reload only
ShortJitters == {-500}

\* a short frame, a short frame with a jump
AirInputs == {NoInput(100), [NoInput(100) EXCEPT !.jump = TRUE]}

\* a short frame, a long frame
IdleInputs == {NoInput(100), NoInput(500)}

\* a short frame: idle, a step to the right, a jump, a click straight ahead
\* of x = 0.5
GrazeInputs ==
    {NoInput(100), [NoInput(100) EXCEPT !.right = TRUE], [NoInput(100) EXCEPT !.jump = TRUE],
     ShootAt(100, 50, 500)}

\* a long frame, with or without a click toward the near edge of the map
EdgeInputs == {NoInput(500), ShootAt(500, 0, -900)}

\* a long frame: idle, a click on the player's own position, a click toward
\* the near edge of the map
StillInputs == {NoInput(500), ShootAt(500, 0, -200), ShootAt(500, 0, -900)}

\* a short frame, idle or with the keys D+S held
BumpInputs == {NoInput(100), [NoInput(100) EXCEPT !.right = TRUE, !.down = TRUE]}

\* a long frame, with or without the key P
SiegeInputs == {NoInput(500), [NoInput(500) EXCEPT !.keyP = TRUE]}

\* a long frame, with or without a click on the enemy's first position
DuelInputs == {NoInput(500), ShootAt(500, 50, 550)}

\* a short frame with the keys S, D+S, A+S held
WalkInputs == {[NoInput(100) EXCEPT !.down = TRUE],
               [NoInput(100) EXCEPT !.right = TRUE, !.down = TRUE],
               [NoInput(100) EXCEPT !.left = TRUE, !.down = TRUE]}

---------------------------------------------------------------------------
(* History *)

AddTime(n, dt) == IF n < 0 THEN n ELSE Min(n + dt, SinceCap)

\* the time since each enemy's latest shot, after a frame of dt
ElapseShots(h, dt) == [i \in EnemyIdx |-> IF h[i] < 0 THEN h[i] ELSE Min(h[i] + dt, ShotCap)]

\* the time since each enemy's latest shot, after an UpdateEnemies that took
\* the enemies from e0 to e1: an enemy that reloaded has just fired
RestartShots(h, e0, e1, dt) ==
    [i \in EnemyIdx |-> IF e1[i].shootTimer # e0[i].shootTimer - dt /\ e0[i].active THEN 0 ELSE h[i]]

Elapse(h, dt) == [p |-> AddTime(h.p, dt), e |-> [i \in EnemyIdx |-> AddTime(h.e[i], dt)]]

Restart(h, p0, p1, e0, e1) ==
    [p |-> IF p1.health < p0.health THEN 0 ELSE h.p,
     e |-> [i \in EnemyIdx |-> IF e1[i].health < e0[i].health THEN 0 ELSE h.e[i]]]

---------------------------------------------------------------------------
(* The frame: main.c:169-291 *)

Toggle(gs, keyP) ==
    IF keyP THEN (IF gs = "GAME_PLAYING" THEN "GAME_PAUSED" ELSE "GAME_PLAYING") ELSE gs

Muzzle(position) == Vec(position.x, position.y + 50, position.z)

Keys(inp) == [right |-> inp.right, left |-> inp.left, down |-> inp.down, up |-> inp.up,
              jump |-> inp.jump]

\* main.c:188-272 on the polled input: the player, the pool and the cooldown it leaves
PlayerStep(inp) ==
    LET p1 == PlayerHitDecay(player, inp.dt)
        p2 == MovePlayer(p1, inp)
        p3 == Jump(p2, inp.jump)
        cd == PlayerCooldown(canShoot, shootTimer, inp.dt)
        fires == inp.shoot /\ cd.canShoot
        pool == [bullets |-> bullets, bulletCount |-> bulletCount, slot |-> -2]
        shot == IF fires
                THEN ShootBullet(pool, Muzzle(p3.position), PlayerAim(p3, inp.aim), TRUE)
                ELSE pool
    IN  [player |-> UpdatePlayerPhysics(p3), pool |-> shot,
         canShoot |-> IF fires THEN FALSE ELSE cd.canShoot,
         shootTimer |-> IF fires THEN PlayerShootCooldown ELSE cd.shootTimer]

\* Tick running the player's part whatever the game state
Tick_NoPause(inp) ==
    /\ pc = "frame"
    /\ deltaTime' = inp.dt
    /\ keys' = Keys(inp)
    /\ gameState' = Toggle(gameState, inp.keyP)
    /\ UNCHANGED <<enemies, probe, cubicmap>>
    /\ \E r \in {PlayerStep(inp)} :
          /\ player' = r.player
          /\ bullets' = r.pool.bullets
          /\ bulletCount' = r.pool.bulletCount
          /\ lastSlot' = r.pool.slot
          /\ canShoot' = r.canShoot
          /\ shootTimer' = r.shootTimer
    /\ sinceHit' = Elapse(sinceHit, inp.dt)
    /\ sinceShot' = ElapseShots(sinceShot, inp.dt)
    /\ pc' = IF gameState' = "GAME_PLAYING" THEN "enemies" ELSE "frame"

\* main.c:172-272: poll, pause key, hit timer, move, jump, shoot, physics
Tick(inp) ==
    /\ pc = "frame"
    /\ deltaTime' = inp.dt
    /\ keys' = Keys(inp)
    /\ gameState' = Toggle(gameState, inp.keyP)
    /\ UNCHANGED <<enemies, probe, cubicmap>>
    /\ IF gameState' = "GAME_PLAYING"
       THEN /\ \E r \in {PlayerStep(inp)} :
                  /\ player' = r.player
                  /\ bullets' = r.pool.bullets
                  /\ bulletCount' = r.pool.bulletCount
                  /\ lastSlot' = r.pool.slot
                  /\ canShoot' = r.canShoot
                  /\ shootTimer' = r.shootTimer
            /\ sinceHit' = Elapse(sinceHit, inp.dt)
            /\ sinceShot' = ElapseShots(sinceShot, inp.dt)
            /\ pc' = "enemies"
       ELSE /\ UNCHANGED <<player, bullets, bulletCount, canShoot, shootTimer, sinceHit, sinceShot>>
            /\ lastSlot' = -2
            /\ pc' = "frame"

\* a frame of a run of at most `limit` frames
Frame(inp, limit) ==
    /\ frames < limit
    /\ frames' = frames + 1
    /\ Tick(inp)

PlayerFrame(inp) == Frame(inp, MaxFrames)

\* UpdateEnemies on the current state: [enemies, pool]
EnemiesStep(jit) ==
    EnemiesLoop(0, [enemies |-> enemies,
                    pool |-> [bullets |-> bullets, bulletCount |-> bulletCount, slot |-> -2]],
                player, deltaTime, jit)

\* main.c:275
Enemies(jitters) ==
    /\ pc = "enemies"
    /\ \E jit \in [EnemyIdx -> jitters] :
          \E r \in {EnemiesStep(jit)} :
             /\ enemies' = r.enemies
             /\ bullets' = r.pool.bullets
             /\ bulletCount' = r.pool.bulletCount
             /\ lastSlot' = r.pool.slot
             /\ sinceShot' = RestartShots(sinceShot, enemies, r.enemies, deltaTime)
    /\ pc' = "bullets"
    /\ UNCHANGED <<player, gameState, canShoot, shootTimer, deltaTime, frames, sinceHit,
                   keys, probe, cubicmap>>

\* main.c:278
Bullets ==
    /\ pc = "bullets"
    /\ bullets' = UpdateBulletsAll(bullets, bulletCount)
    /\ lastSlot' = -2
    /\ pc' = "collisions"
    /\ UNCHANGED <<player, enemies, bulletCount, gameState, canShoot, shootTimer, deltaTime,
                   frames, sinceHit, sinceShot, keys, probe, cubicmap>>

\* CheckBulletCollisions on the current state
CollisionsStep ==
    CollisionsLoop(0, [bullets |-> bullets, player |-> player, enemies |-> enemies], bulletCount)

\* main.c:281-290: the collisions, then the game-over test
Collisions ==
    /\ pc = "collisions"
    /\ \E r \in {CollisionsStep} :
          /\ bullets' = r.bullets
          /\ player' = r.player
          /\ enemies' = r.enemies
          /\ gameState' = IF r.player.health <= 0 THEN "GAME_PAUSED" ELSE gameState
          /\ sinceHit' = Restart(sinceHit, player, r.player, enemies, r.enemies)
    /\ lastSlot' = -2
    /\ pc' = "frame"
    /\ UNCHANGED <<bulletCount, canShoot, shootTimer, deltaTime, frames, sinceShot, keys, probe,
                   cubicmap>>

FrameCombat == \E inp \in CombatInputs : PlayerFrame(inp)

EnemiesShort == Enemies(ShortJitters)

Next == FrameCombat \/ EnemiesShort \/ Bullets \/ Collisions

\* near enemies, long and short frames, the player shooting
Spec == Init /\ [][Next]_vars

FrameAir == \E inp \in AirInputs : PlayerFrame(inp)

EnemiesAny == Enemies(Jitters)

NextAir == FrameAir \/ EnemiesAny \/ Bullets \/ Collisions

\* near enemies, the player jumping
SpecAir == Init /\ [][NextAir]_vars

InitMove == InitWith(FarStarts)

FrameIdle == \E inp \in IdleInputs : PlayerFrame(inp)

NextMove == FrameIdle \/ EnemiesShort \/ Bullets \/ Collisions

\* far enemies walking toward the player along the walls
SpecMove == InitMove /\ [][NextMove]_vars

FrameWalk == \E inp \in WalkInputs : PlayerFrame(inp)

NextWalk == FrameWalk \/ EnemiesShort \/ Bullets \/ Collisions

\* near enemies, the player walking toward the walls
SpecWalk == Init /\ [][NextWalk]_vars

\* the jump key is pressed in the first frames only, so that every jump
\* has the frames to come down
FrameJump == \E inp \in AirInputs : (inp.jump => frames < JumpFrames) /\ Frame(inp, MaxAirFrames)

NextJump == FrameJump \/ EnemiesShort \/ Bullets \/ Collisions

\* the main loop going on (main.c:169): the step its position calls for, as
\* far as pc and frames show it; enabled exactly when a step of the loop is
LoopStep(limit) ==
    /\ pc = "frame" => frames < limit
    /\ pc' \in {"frame", "enemies", "bullets", "collisions"}
    /\ frames' \in {frames, frames + 1}

\* near enemies, the player jumping; the main loop keeps running
SpecJump == Init /\ [][NextJump]_vars /\ WF_<<pc, frames>>(LoopStep(MaxAirFrames))

\* the box the spheres are tested against: the player's, at the start
ProbeBox == GetActorBoundingBox(InitPlayer.position)

\* distances of a sphere's center from a face of the box, in 1/100 unit:
\* on it, nearer than the radius, the radius away, farther
ProbeGaps == {0, 9, 12, 15, 16}

\* coordinates on one axis: outside either face by a gap, and the middle
ProbeAxis(lo, hi) == {lo - d : d \in ProbeGaps} \cup {hi + d : d \in ProbeGaps} \cup {(lo + hi) \div 2}

ProbeCenters ==
    {Vec(x, y, z) : x \in ProbeAxis(ProbeBox.min.x, ProbeBox.max.x),
                    y \in ProbeAxis(ProbeBox.min.y, ProbeBox.max.y),
                    z \in ProbeAxis(ProbeBox.min.z, ProbeBox.max.z)}

\* a sphere of a bullet's radius is chosen
InitProbe ==
    /\ InitGame(NearStarts, PoolSize)
    /\ probe \in {[NoProbe EXCEPT !.center = c] : c \in ProbeCenters}

\* CheckCollisionSphereBox is called on the sphere and the box
Probe ==
    /\ ~probe.done
    /\ probe' = [probe EXCEPT !.done = TRUE,
                              !.result = CheckCollisionSphereBox(probe.center, BULLET_RADIUS, ProbeBox)]
    /\ UNCHANGED <<player, enemies, bullets, bulletCount, gameState, canShoot, shootTimer,
                   deltaTime, pc, frames, lastSlot, sinceHit, sinceShot, keys, cubicmap>>

NextProbe == Probe

SpecProbe == InitProbe /\ [][NextProbe]_vars

\* positions of a bullet before UpdateBullets: at the player's muzzle, and
\* one step short of the range limit, a little inside and a little outside
RangePositions ==
    {Vec(0, 100, -200), Vec(0, 100, 4968), Vec(0, 100, 4969), Vec(4770, 1400, 0), Vec(4771, 1400, 0),
     Vec(4970, 100, 0), Vec(-4970, 100, 0), Vec(0, 100, -4969)}

\* directions of a bullet: along the axes, oblique, none
RangeDirections ==
    {Vec(0, 0, 1000), Vec(0, 0, -1000), Vec(1000, 0, 0), Vec(-1000, 0, 0), Vec(600, 0, 800), Vec(0, 0, 0)}

\* UpdateBullets is about to run, after a short or a long frame, on a pool
\* with one active bullet
InitRange ==
    /\ player = InitPlayer
    /\ enemies \in [EnemyIdx -> NearStarts]
    /\ bullets \in {[i \in 0..(PoolSize - 1) |->
                        IF i = 0 THEN NewBullet(pos, dir, own) ELSE NoBullet] :
                     pos \in RangePositions, dir \in RangeDirections, own \in BOOLEAN}
    /\ bulletCount = 1
    /\ gameState = "GAME_PLAYING"
    /\ canShoot = TRUE
    /\ shootTimer = 0
    /\ deltaTime \in {100, 500}
    /\ pc = "bullets"
    /\ frames = 1
    /\ lastSlot = -2
    /\ sinceHit = [p |-> -1, e |-> [i \in EnemyIdx |-> -1]]
    /\ sinceShot = [i \in EnemyIdx |-> -1]
    /\ keys = NoKeys
    /\ probe = NoProbe
    /\ cubicmap = WallCells

NextRange == Bullets

\* UpdateBullets on pools drawn around the range limit
SpecRange == InitRange /\ [][NextRange]_vars

\* heights of the player's base and vertical velocities near the end of a fall
FallHeights == {50, 51, 59, 60, 68, 69, 87}

FallSpeeds == {0, -9, -10, -18, -19}

\* the start of a frame with the player coming down on the floor
InitFall ==
    /\ player \in {[InitPlayer EXCEPT !.position.y = y, !.velocity.y = v, !.isGrounded = (y = GroundLevel)] :
                     y \in FallHeights, v \in FallSpeeds}
    /\ enemies \in [EnemyIdx -> NearStarts]
    /\ bullets = [i \in 0..(PoolSize - 1) |-> NoBullet]
    /\ bulletCount = 0
    /\ gameState = "GAME_PLAYING"
    /\ canShoot = TRUE
    /\ shootTimer = 0
    /\ deltaTime = 0
    /\ pc = "frame"
    /\ frames = 0
    /\ lastSlot = -2
    /\ sinceHit = [p |-> -1, e |-> [i \in EnemyIdx |-> -1]]
    /\ sinceShot = [i \in EnemyIdx |-> -1]
    /\ keys = NoKeys
    /\ probe = NoProbe
    /\ cubicmap = WallCells

NextFall == FrameAir \/ EnemiesShort \/ Bullets \/ Collisions

\* the last ticks of a fall, the player jumping again or not
SpecFall == InitFall /\ [][NextFall]_vars

InitVolley == InitWith(VolleyStarts)

NextVolley == FrameIdle \/ EnemiesAny \/ Bullets \/ Collisions

\* an enemy in range and an enemy out of range, short and long frames, every jitter
SpecVolley == InitVolley /\ [][NextVolley]_vars

FrameGraze ==
    \E inp \in GrazeInputs :
       /\ inp.shoot => frames < ShootFrames
       /\ inp.right \/ inp.jump => frames < StepFrames
       /\ Frame(inp, GrazeFrames)

NextGraze == FrameGraze \/ EnemiesShort \/ Bullets \/ Collisions

\* near enemies that stand against a wall cell, the player stepping, jumping
\* and shooting past the wall
SpecGraze == Init /\ [][NextGraze]_vars

InitEdge == InitWith(EdgeStarts)

FrameEdge == \E inp \in EdgeInputs : (inp.shoot => frames < ShootFrames) /\ Frame(inp, EdgeFrames)

NextEdge == FrameEdge \/ EnemiesShort \/ Bullets \/ Collisions

\* enemies at the far edge of the map, the player shooting toward the near edge
SpecEdge == InitEdge /\ [][NextEdge]_vars /\ WF_<<pc, frames>>(LoopStep(EdgeFrames))

\* enemies in range of the player, 9.5 and 7.5 away
StillStarts == {InitEnemy(50, 750, 2000), InitEnemy(50, 550, 2000)}

InitStill == InitWith(StillStarts)

\* a frame of a run without end: the count of frames stops at StillFrames
FrameStill ==
    \E inp \in StillInputs :
       /\ inp.shoot => frames < StepFrames
       /\ frames' = Min(frames + 1, StillFrames)
       /\ Tick(inp)

NextStill == FrameStill \/ EnemiesShort \/ Bullets \/ Collisions

\* the main loop going on without a limit, as far as pc shows it
LoopOn == pc' \in {"frame", "enemies", "bullets", "collisions"}

\* enemies in range, the player clicking on the spot or toward the near edge
\* in the first frames; the main loop runs for ever
SpecStill == InitStill /\ [][NextStill]_vars /\ WF_pc(LoopOn)

InitPit == InitOn(NearStarts, PoolSize) /\ probe = NoProbe /\ cubicmap = PitCells

\* near enemies, the player starting inside a wall cell and jumping out of it
SpecPit == InitPit /\ [][NextJump]_vars

\* an enemy beyond the far wall cell, an enemy beyond a near wall cell
BumpStarts == {InitEnemy(650, 50, 2000), InitEnemy(150, 250, 2000)}

InitBump == InitOn(BumpStarts, PoolSize) /\ probe = NoProbe /\ cubicmap = BumpCells

FrameBump == \E inp \in BumpInputs : PlayerFrame(inp)

NextBump == FrameBump \/ EnemiesShort \/ Bullets \/ Collisions

\* far enemies walking toward the player along the walls, the player walking
\* up to a wall cell
SpecBump == InitBump /\ [][NextBump]_vars

InitSiege == InitSized(SiegeStarts, SiegePool)

FrameSiege == \E inp \in SiegeInputs : Frame(inp, SiegeFrames)

NextSiege == FrameSiege \/ EnemiesShort \/ Bullets \/ Collisions

\* near enemies firing at a player who stands still and may pause and resume
SpecSiege == InitSiege /\ [][NextSiege]_vars

InitDuel == InitSized(DuelStarts, DuelPool)

\* the player clicks in the first frames only, so that every shot has the
\* frames to arrive
FrameDuel == \E inp \in DuelInputs : (inp.shoot => frames < ShootFrames) /\ Frame(inp, DuelFrames)

NextDuel == FrameDuel \/ EnemiesShort \/ Bullets \/ Collisions

\* the player shooting at an enemy that walks up to him; the main loop keeps running
SpecDuel == InitDuel /\ [][NextDuel]_vars /\ WF_<<pc, frames>>(LoopStep(DuelFrames))

---------------------------------------------------------------------------
(* Properties *)

AllActive(bs) == \A i \in Slots : bs[i].active

\* a ShootBullet call was made in the step
FireCalled(slot) == slot # -2

\* bullet i is tested against the actors in the coming CheckBulletCollisions
Live(i) == i < bulletCount /\ bullets[i].active /\ ~CheckCollisionBulletWithMap(bullets[i])

\* C1: in CheckBulletCollisions a target whose isHit flag is set keeps its
\* health, and no target loses more than one bullet's damage however many
\* bullets strike it in the tick
C1_HitGate ==
    [][pc = "collisions" =>
          /\ (player.isHit => player'.health = player.health)
          /\ player'.health >= player.health - BulletDamage
          /\ \A j \in EnemyIdx :
                /\ (enemies[j].isHit => enemies'[j].health = enemies[j].health)
                /\ enemies'[j].health >= enemies[j].health - BulletDamage]_vars

\* an enemy bullet is about to strike the player inside the player's hit window
C1_Witness ==
    /\ pc = "collisions"
    /\ player.isHit
    /\ \E i \in Slots : Live(i) /\ ~bullets[i].fromPlayer /\ StrikesPlayer(bullets[i], player)

\* a player bullet is about to strike an enemy inside the enemy's hit window
C1_WitnessEnemy ==
    /\ pc = "collisions"
    /\ \E i \in Slots, j \in EnemyIdx :
          /\ Live(i) /\ bullets[i].fromPlayer
          /\ enemies[j].isHit /\ StrikesEnemy(bullets[i], enemies[j])
          /\ \A k \in EnemyIdx : k < j => ~StrikesEnemy(bullets[i], enemies[k])

\* C2: health only drops in CheckBulletCollisions, by exactly one bullet's
\* damage per tick, and between two drops of the same target the delta time of
\* the ticks after the first drop, up to the tick of the second, adds up to at
\* least the target's hit window (0.5 s for the player, 0.2 s for an enemy)
C2_OncePerWindow ==
    [][/\ player'.health # player.health =>
             /\ pc = "collisions"
             /\ player'.health = player.health - BulletDamage
             /\ (sinceHit.p = -1 \/ sinceHit.p >= PlayerHitTime)
       /\ \A j \in EnemyIdx :
             enemies'[j].health # enemies[j].health =>
                /\ pc = "collisions"
                /\ enemies'[j].health = enemies[j].health - BulletDamage
                /\ (sinceHit.e[j] = -1 \/ sinceHit.e[j] >= EnemyHitTime)]_vars

\* an enemy has taken damage twice
C2_Witness == \E j \in EnemyIdx : enemies[j].health = EnemyHealth - 2 * BulletDamage

\* the player has taken damage twice
C2_WitnessPlayer == player.health = PlayerHealth - 2 * BulletDamage

\* C3: for the player and every enemy, isHit implies hitTimer > 0, in every
\* state (so also right after the decay step and at the end of every tick)
C3_HitImpliesTimer ==
    /\ player.isHit => player.hitTimer > 0
    /\ \A j \in EnemyIdx : enemies[j].isHit => enemies[j].hitTimer > 0

\* right after the decay step, the player still inside a window that has decayed
C3_Witness ==
    /\ pc = "enemies"
    /\ player.isHit /\ player.hitTimer < PlayerHitTime
    /\ \E j \in EnemyIdx : enemies[j].isHit

\* C4 as claimed: while isHit the timer never rises, never goes below 0, and
\* is exactly 0 in the tick isHit clears
C4_Original ==
    [][/\ player.isHit => /\ player'.hitTimer <= player.hitTimer
                          /\ player'.hitTimer >= 0
                          /\ (~player'.isHit => player'.hitTimer = 0)
       /\ \A j \in EnemyIdx :
             enemies[j].isHit => /\ enemies'[j].hitTimer <= enemies[j].hitTimer
                                 /\ enemies'[j].hitTimer >= 0
                                 /\ (~enemies'[j].isHit => enemies'[j].hitTimer = 0)]_vars

\* C4 amended: while isHit the timer never rises, it stays > 0 as long as
\* isHit stays set, and in the tick isHit clears it is the old positive value
\* minus that tick's delta time, that is in (-dt, 0]: not clamped, so it may be
\* below 0
C4_DecayToNonPositive ==
    [][/\ player.isHit => /\ player'.hitTimer <= player.hitTimer
                          /\ (player'.isHit => player'.hitTimer > 0)
                          /\ (~player'.isHit => /\ player'.hitTimer <= 0
                                                /\ player'.hitTimer > -deltaTime'
                                                /\ player'.hitTimer = player.hitTimer - deltaTime')
       /\ \A j \in EnemyIdx :
             enemies[j].isHit =>
                /\ enemies'[j].hitTimer <= enemies[j].hitTimer
                /\ (enemies'[j].isHit => enemies'[j].hitTimer > 0)
                /\ (~enemies'[j].isHit => /\ enemies'[j].hitTimer <= 0
                                          /\ enemies'[j].hitTimer > -deltaTime'
                                          /\ enemies'[j].hitTimer = enemies[j].hitTimer - deltaTime')]_vars

\* a hit window that ended with the timer below 0
C4_Witness == \E j \in EnemyIdx : ~enemies[j].isHit /\ enemies[j].hitTimer < 0

\* C5: a step that calls ShootBullet while every slot is active changes no
\* slot and not the counter
C5_FullPoolNoOp ==
    [][FireCalled(lastSlot') /\ AllActive(bullets) =>
          /\ bullets' = bullets
          /\ bulletCount' = bulletCount
          /\ lastSlot' = -1]_vars

\* ShootBullet has just returned early with every slot active
C5_Witness == lastSlot = -1 /\ AllActive(bullets)

\* C6 as claimed: a step that calls ShootBullet while some slot is inactive
\* activates the lowest inactive slot, with the caller's origin flag
C6_Original ==
    [][FireCalled(lastSlot') /\ FindInactive(bullets) # -1 =>
          /\ bullets'[FindInactive(bullets)].active
          /\ bullets'[FindInactive(bullets)].fromPlayer = (pc = "frame")]_vars

\* C7 as claimed: a step that calls ShootBullet while every slot is active
\* writes the new shot to slot bulletCount mod MAX_BULLETS
C7_Original ==
    [][FireCalled(lastSlot') /\ AllActive(bullets) =>
          /\ lastSlot' = bulletCount % MAX_BULLETS
          /\ bullets'[bulletCount % MAX_BULLETS].fromPlayer = (pc = "frame")]_vars

\* C8: the counter and the number of active bullets never exceed MAX_BULLETS
\* and every slot written is in 0..MAX_BULLETS-1
C8_PoolBounded ==
    /\ bulletCount >= 0 /\ bulletCount <= MAX_BULLETS
    /\ DOMAIN bullets = Slots
    /\ Cardinality({i \in Slots : bullets[i].active}) <= MAX_BULLETS
    /\ lastSlot \in {-2, -1} \cup Slots
    /\ bulletCount >= Cardinality({i \in Slots : bullets[i].active})

\* the last slot has just been written and the counter has reached the capacity
C8_Witness == bulletCount = MAX_BULLETS /\ lastSlot = MAX_BULLETS - 1

\* C9 as claimed: every active bullet has a direction with no vertical component
C9_Original == \A i \in Slots : bullets[i].active => bullets[i].direction.y = 0

\* the X move of enemy j in the coming UpdateEnemies, and whether it collides
XMoved(j) ==
    [enemies[j].position EXCEPT !.x = enemies[j].position.x + EnemyStep(enemies[j], player).x]

\* the Z move of enemy j from where the X move has left it (x1)
ZMoved(j, x1) ==
    [enemies[j].position EXCEPT !.x = x1,
                                !.z = enemies[j].position.z + EnemyStep(enemies[j], player).z]

Walks(j) == enemies[j].active /\ TooFar(enemies[j], player)

\* C10: in UpdateEnemies an active enemy beyond the stand-off keeps its old x
\* exactly when the X move collides with the map, then keeps its old z exactly
\* when the Z move (from the x it was left with) collides; the other axis
\* keeps its move
C10_AxisByAxis ==
    [][pc = "enemies" =>
          \A j \in EnemyIdx :
             Walks(j) =>
                /\ enemies'[j].position.x =
                      IF CheckCollisionEnemyWithMap(XMoved(j))
                      THEN enemies[j].position.x ELSE XMoved(j).x
                /\ enemies'[j].position.z =
                      IF CheckCollisionEnemyWithMap(ZMoved(j, enemies'[j].position.x))
                      THEN enemies[j].position.z
                      ELSE ZMoved(j, enemies'[j].position.x).z
                /\ enemies'[j].position.y = enemies[j].position.y]_vars

\* an enemy about to slide along a wall: its X move collides, its Z move does not
C10_Witness ==
    /\ pc = "enemies"
    /\ \E j \in EnemyIdx :
          /\ Walks(j)
          /\ EnemyStep(enemies[j], player).x # 0 /\ EnemyStep(enemies[j], player).z # 0
          /\ CheckCollisionEnemyWithMap(XMoved(j))
          /\ ~CheckCollisionEnemyWithMap(ZMoved(j, enemies[j].position.x))

\* the other way round: the X move is free, the Z move collides
C10_WitnessZ ==
    /\ pc = "enemies"
    /\ \E j \in EnemyIdx :
          /\ Walks(j)
          /\ EnemyStep(enemies[j], player).x # 0 /\ EnemyStep(enemies[j], player).z # 0
          /\ ~CheckCollisionEnemyWithMap(XMoved(j))
          /\ CheckCollisionEnemyWithMap(ZMoved(j, XMoved(j).x))

\* the step of the player's frame that ran the simulation (the game not paused)
PlayerStepped == pc = "frame" /\ pc' = "enemies"

\* the player's position with only the X part, or only the Z part, of the move asked by keys k
XOnly(p, k) ==
    [p EXCEPT !.position.x = IF k.right THEN p.position.x + PlayerSpeed
                             ELSE IF k.left THEN p.position.x - PlayerSpeed ELSE p.position.x]

ZOnly(p, k) ==
    [p EXCEPT !.position.z = IF k.down THEN p.position.z + PlayerSpeed
                             ELSE IF k.up THEN p.position.z - PlayerSpeed ELSE p.position.z]

Diagonal(k) == (k.right \/ k.left) /\ (k.down \/ k.up)

\* C11 as claimed: when the player moves diagonally and the move of one axis
\* alone runs into a solid cell while the move of the other axis alone does
\* not, the colliding axis keeps its old coordinate and the other axis keeps
\* its move
C11_Original ==
    [][PlayerStepped /\ Diagonal(keys') =>
          LET xHits == CheckCollisionPlayerWithMap(XOnly(player, keys')).collision
              zHits == CheckCollisionPlayerWithMap(ZOnly(player, keys')).collision
          IN  /\ (xHits /\ ~zHits =>
                     /\ player'.position.x = player.position.x
                     /\ player'.position.z = ZOnly(player, keys').position.z)
              /\ (zHits /\ ~xHits =>
                     /\ player'.position.z = player.position.z
                     /\ player'.position.x = XOnly(player, keys').position.x)]_vars

\* standing on the floor, at rest
OnFloorAtRest(p) == p.position.y = GroundLevel /\ p.velocity.y = 0

\* C12 as claimed: a jump requested while the player stands on the floor with
\* velocity.y = 0 leaves, at the end of that tick, velocity.y equal to the jump
\* impulse and isGrounded false
C12_Original ==
    [][PlayerStepped /\ keys'.jump /\ OnFloorAtRest(player) =>
          /\ player'.velocity.y = PlayerJumpForce
          /\ ~player'.isGrounded]_vars

\* the player's box touches a solid cell whose top is at the player's base
OnCellTop(p) ==
    /\ Abs(p.position.y - (mapPosition.y + 100)) < GroundTolerance
    /\ \E k \in 1..9 :
          /\ WallAt(CellOf(p.position), k)
          /\ CheckCollisionBoxes(GetActorBoundingBox(p.position),
                                 WindowBounds(CellOf(p.position), k))

\* base above the floor and not resting on a cell top
Airborne(p) == p.position.y > GroundLevel /\ ~OnCellTop(p)

\* at the floor level or on a cell top, velocity.y = 0 and grounded for the
\* jump test of the tick (the flag as the frame's collision test leaves it)
Landed(p) ==
    /\ p.position.y = GroundLevel \/ (p.position.y = mapPosition.y + 100 /\ OnCellTop(p))
    /\ p.velocity.y = 0
    /\ CheckCollisionPlayerWithMap(p).player.isGrounded

C14_NoAirJump ==
    [][PlayerStepped /\ keys'.jump /\ Airborne(player) =>
          \/ player'.velocity.y = player.velocity.y - PlayerGravity
          \/ player'.velocity.y = 0 /\ player'.isGrounded]_vars

\* the jump key was pressed in a tick the player was already rising
C14_Witness ==
    /\ pc = "enemies" /\ keys.jump
    /\ Airborne(player)
    /\ player.velocity.y > 0 /\ player.velocity.y < PlayerJumpForce - PlayerGravity

\* enemy j is active and at most the stand-off away from the player
Within(j) == enemies[j].active /\ ~TooFar(enemies[j], player)

\* the cooldown of enemy j reaches <= 0 in the coming UpdateEnemies
CooledDown(j) == enemies[j].shootTimer - deltaTime <= 0

\* the enemies before j that fire in the coming UpdateEnemies
FiringBefore(j) ==
    {k \in EnemyIdx : k < j /\ enemies[k].active /\ CooledDown(k) /\ InRange(enemies[k], player)}

\* C15: in UpdateEnemies an active enemy at most the stand-off away from the
\* player keeps its position; its cooldown goes down by dt, and when that
\* brings it to <= 0 the enemy fires: it calls ShootBullet (which spawns an
\* enemy bullet at its muzzle while the pool takes shots) and reloads
C15_StandOffStillShoots ==
    [][pc = "enemies" =>
          \A j \in EnemyIdx :
             Within(j) =>
                /\ enemies'[j].position = enemies[j].position
                /\ ~CooledDown(j) =>
                      enemies'[j].shootTimer = enemies[j].shootTimer - deltaTime
                /\ CooledDown(j) =>
                      /\ enemies'[j].shootTimer - enemies[j].shootCooldown \in Jitters
                      /\ FireCalled(lastSlot')
                      /\ bulletCount + Cardinality(FiringBefore(j)) < MAX_BULLETS =>
                            \E i \in Slots :
                               /\ ~bullets[i].active
                               /\ bullets'[i].active /\ ~bullets'[i].fromPlayer
                               /\ bullets'[i].position = Muzzle(enemies[j].position)]_vars

\* an enemy inside the stand-off has just fired and reloaded
C15_Witness ==
    /\ pc = "bullets" /\ lastSlot \in Slots
    /\ \E j \in EnemyIdx :
          /\ Within(j)
          /\ enemies[j].shootTimer - enemies[j].shootCooldown \in Jitters
          /\ \E i \in Slots : /\ bullets[i].active /\ ~bullets[i].fromPlayer
                               /\ bullets[i].position = Muzzle(enemies[j].position)

\* the player's first shot of the run has just been fired, straight at enemy
\* j, which is active, unhurt and not in its hit window (and is the first such
\* enemy at its place)
FiredAt(j) ==
    /\ pc = "enemies" /\ lastSlot = 0
    /\ bullets[0].active /\ bullets[0].fromPlayer
    /\ bullets[0].position = Muzzle(player.position)
    /\ enemies[j].active /\ enemies[j].health = EnemyHealth /\ ~enemies[j].isHit
    /\ bullets[0].direction = PlayerAim(player, [x |-> enemies[j].position.x, z |-> enemies[j].position.z])
    /\ \A k \in EnemyIdx : k < j => enemies[k].position # enemies[j].position

\* the tick in which that shot has struck enemy j is over
HitBy(j) ==
    /\ pc = "frame"
    /\ enemies[j].health = EnemyHealth - BulletDamage
    /\ enemies[j].isHit /\ enemies[j].hitTimer = EnemyHitTime
    /\ ~bullets[0].active /\ bullets[0].fromPlayer

\* C16: a shot the player fires from (0, 0.5, -2) straight at an active enemy
\* of health 30 outside its hit window, with nothing in between, reaches the
\* enemy; in the tick it does the enemy's health becomes 20, isHit true and
\* hitTimer 0.2, and the bullet is deactivated
C16_ShotStrikes ==
    /\ [][\A j \in EnemyIdx :
             enemies[j].health = EnemyHealth /\ enemies'[j].health # EnemyHealth =>
                /\ pc = "collisions"
                /\ enemies'[j].health = EnemyHealth - BulletDamage
                /\ enemies'[j].isHit /\ enemies'[j].hitTimer = EnemyHitTime
                /\ \E i \in Slots :
                      /\ bullets[i].active /\ bullets[i].fromPlayer
                      /\ StrikesEnemy(bullets[i], enemies[j])
                      /\ ~bullets'[i].active]_vars
    /\ \A j \in EnemyIdx : [](FiredAt(j) => <>HitBy(j))

\* the first shot has struck the enemy it was fired at
C16_Witness ==
    /\ player.position = Vec(0, 50, -200)
    /\ \E j \in EnemyIdx : HitBy(j) /\ sinceHit.e[j] = 0

\* C18: an active enemy has health > 0; an enemy is deactivated in the step
\* that brings its health to <= 0, and an inactive enemy stays inactive
C18_DeadStaysDead ==
    /\ [](\A j \in EnemyIdx : enemies[j].active => enemies[j].health > 0)
    /\ [][\A j \in EnemyIdx :
             /\ enemies[j].health > 0 /\ enemies'[j].health <= 0 => ~enemies'[j].active
             /\ ~enemies[j].active => ~enemies'[j].active]_vars

\* an enemy was shot down in an earlier tick and is still inactive, while
\* the game goes on
C18_Witness ==
    /\ gameState = "GAME_PLAYING"
    /\ \E j \in EnemyIdx : /\ ~enemies[j].active /\ enemies[j].health <= 0
                            /\ sinceHit.e[j] > 0

\* bullet b is inside the bounds of enemy e, active or not
Overlaps(b, e) == CheckCollisionSphereBox(b.position, b.radius, GetActorBoundingBox(e.position))

\* enemy j, if active, fires in the coming UpdateEnemies
Due(j) == CooledDown(j) /\ InRange(enemies[j], player)

\* C19: no step changes a field of an inactive enemy; an UpdateEnemies in
\* which no active enemy is due calls ShootBullet for nobody, whatever the
\* inactive ones' cooldowns; and a player bullet that overlaps inactive
\* enemies only, away from the walls, is left as it is by CheckBulletCollisions
C19_InactiveExcluded ==
    [][/\ \A j \in EnemyIdx : ~enemies[j].active => enemies'[j] = enemies[j]
       /\ pc = "enemies" /\ (\A k \in EnemyIdx : enemies[k].active => ~Due(k)) =>
             /\ lastSlot' = -2
             /\ bullets' = bullets /\ bulletCount' = bulletCount
       /\ pc = "collisions" =>
             \A i \in Slots :
                /\ bullets[i].active /\ bullets[i].fromPlayer
                /\ ~CheckCollisionBulletWithMap(bullets[i])
                /\ \E j \in EnemyIdx : ~enemies[j].active /\ Overlaps(bullets[i], enemies[j])
                /\ \A k \in EnemyIdx : enemies[k].active => ~Overlaps(bullets[i], enemies[k])
                => bullets'[i] = bullets[i]]_vars

\* CheckBulletCollisions has run with a live player bullet inside the bounds
\* of an enemy shot down before, whose cooldown would have it fire next
C19_Witness ==
    /\ pc = "frame" /\ frames > 0
    /\ \E j \in EnemyIdx :
          /\ ~enemies[j].active
          /\ enemies[j].shootTimer - deltaTime <= 0 /\ InRange(enemies[j], player)
          /\ \E i \in Slots : /\ bullets[i].active /\ bullets[i].fromPlayer
                               /\ Overlaps(bullets[i], enemies[j])

\* how far coordinate c lies outside the interval lo..hi
Gap(c, lo, hi) == IF c < lo THEN lo - c ELSE IF c > hi THEN c - hi ELSE 0

\* squared distance from the probe's center to the nearest point of the box
ProbeDistSqr ==
    LET gx == Gap(probe.center.x, ProbeBox.min.x, ProbeBox.max.x)
        gy == Gap(probe.center.y, ProbeBox.min.y, ProbeBox.max.y)
        gz == Gap(probe.center.z, ProbeBox.min.z, ProbeBox.max.z)
    IN  gx * gx + gy * gy + gz * gz

\* C17: CheckCollisionSphereBox answers true exactly when the squared
\* distance from the center to the nearest point of the box is strictly less
\* than r * r; a sphere exactly r away does not collide
C17_StrictSphereBox ==
    probe.done =>
       /\ probe.result <=> ProbeDistSqr < BULLET_RADIUS * BULLET_RADIUS
       /\ ProbeDistSqr = BULLET_RADIUS * BULLET_RADIUS => ~probe.result

\* a sphere exactly r away from an edge of the box (gaps 0.09 and 0.12) was
\* tested and found not to collide
C17_Witness ==
    /\ probe.done /\ ~probe.result
    /\ ProbeDistSqr = BULLET_RADIUS * BULLET_RADIUS
    /\ probe.center.x > ProbeBox.max.x /\ probe.center.z > ProbeBox.max.z

\* C20 as stated: the player's health and every enemy's health are >= 0 in
\* every reachable state, also after the pause on game over and a resume
C20_Original ==
    /\ player.health >= 0
    /\ \A j \in EnemyIdx : enemies[j].health >= 0

\* cell c = <<x, z>> lies in [0, width) x [0, height)
InRangeCell(c) == c[1] \in 0..(MapWidth - 1) /\ c[2] \in 0..(MapHeight - 1)

\* the wall cells in range whose box the box `b` touches
WallsTouching(b) == {c \in WallCells : InRangeCell(c) /\ CheckCollisionBoxes(b, CellBounds(c[1], c[2]))}

\* the wall cells in range whose box the sphere of bullet `b` enters
WallsStruck(b) ==
    {c \in WallCells : InRangeCell(c) /\ CheckCollisionSphereBox(b.position, b.radius, CellBounds(c[1], c[2]))}

\* the window around the cell of `pos` reaches beyond the map
WindowLeavesMap(pos) ==
    \E k \in 1..9 : ~InRangeCell(<<CellOf(pos).x + Window[k][2], CellOf(pos).z + Window[k][1]>>)

\* C21: wherever the player, an enemy or an active bullet stands, the
\* neighbourhood scan reads cells in [0, width) x [0, height) only, and a
\* map collision inside the map's bounding volume is always with a wall
\* cell in range
C21_OutOfRangeSkipped ==
    /\ \A c \in CellsRead(player.position) : InRangeCell(c)
    /\ CheckCollisionBoxes(GetActorBoundingBox(player.position), MapBounds)
          /\ CheckCollisionPlayerWithMap(player).collision
          => WallsTouching(GetActorBoundingBox(player.position)) # {}
    /\ \A j \in EnemyIdx :
          /\ \A c \in CellsRead(enemies[j].position) : InRangeCell(c)
          /\ CheckCollisionBoxes(GetActorBoundingBox(enemies[j].position), MapBounds)
                /\ CheckCollisionEnemyWithMap(enemies[j].position)
                => WallsTouching(GetActorBoundingBox(enemies[j].position)) # {}
    /\ \A i \in Slots :
          bullets[i].active =>
             /\ \A c \in CellsRead(bullets[i].position) : InRangeCell(c)
             /\ CheckCollisionSphereBox(bullets[i].position, bullets[i].radius, MapBounds)
                   /\ CheckCollisionBulletWithMap(bullets[i])
                   => WallsStruck(bullets[i]) # {}

\* a bullet in the first row of the map, whose window reaches row -1, has
\* been through CheckBulletCollisions and is still active
C21_Witness ==
    /\ pc = "frame" /\ frames > 0
    /\ \E i \in Slots : /\ bullets[i].active
                         /\ CellOf(bullets[i].position).z = 0
                         /\ WindowLeavesMap(bullets[i].position)
                         /\ ~CheckCollisionBulletWithMap(bullets[i])

\* bullet i is active and inside the loops' range
InLoop(i) == i < bulletCount /\ bullets[i].active

\* bullet i fails the map test of the coming CheckBulletCollisions
MapHit(i) == InLoop(i) /\ CheckCollisionBulletWithMap(bullets[i])

\* health, isHit and hitTimer of an actor
Vitals(a) == <<a.health, a.isHit, a.hitTimer>>

\* C22: in CheckBulletCollisions a bullet that collides with a wall cell or
\* is outside the map's bounding volume is deactivated; an actor whose bounds
\* are overlapped by such bullets only keeps its health, isHit and hitTimer
C22_MapFirst ==
    [][pc = "collisions" =>
          /\ \A i \in Slots : MapHit(i) => ~bullets'[i].active
          /\ (\A i \in Slots :
                 InLoop(i) /\ ~bullets[i].fromPlayer /\ StrikesPlayer(bullets[i], player) => MapHit(i))
                => Vitals(player') = Vitals(player)
          /\ \A j \in EnemyIdx :
                (\A i \in Slots :
                    InLoop(i) /\ bullets[i].fromPlayer /\ Overlaps(bullets[i], enemies[j]) => MapHit(i))
                   => Vitals(enemies'[j]) = Vitals(enemies[j])]_vars

\* a player bullet was stopped by a wall cell while inside the bounds of an
\* active enemy, which is unhurt
C22_Witness ==
    /\ pc = "frame" /\ frames > 0
    /\ \E i \in Slots, j \in EnemyIdx :
          /\ i < bulletCount /\ ~bullets[i].active /\ bullets[i].fromPlayer
          /\ CheckCollisionSphereBox(bullets[i].position, bullets[i].radius, MapBounds)
          /\ CheckCollisionBulletWithMap(bullets[i])
          /\ StrikesEnemy(bullets[i], enemies[j])
          /\ enemies[j].health = EnemyHealth /\ ~enemies[j].isHit

\* bullet i reaches the actor tests of the coming CheckBulletCollisions
Tested(i) == InLoop(i) /\ ~MapHit(i)

\* C23: in CheckBulletCollisions the player's health and hit state change
\* only if an enemy bullet strikes him, a player bullet that overlaps the
\* player and no active enemy stays as it is, and an enemy changes only if a
\* player bullet overlaps it
C23_OwnSideSpared ==
    [][pc = "collisions" =>
          /\ (\A i \in Slots : Tested(i) /\ StrikesPlayer(bullets[i], player) => bullets[i].fromPlayer)
                => Vitals(player') = Vitals(player)
          /\ \A i \in Slots :
                /\ Tested(i) /\ bullets[i].fromPlayer /\ StrikesPlayer(bullets[i], player)
                /\ \A j \in EnemyIdx : ~StrikesEnemy(bullets[i], enemies[j])
                => bullets'[i] = bullets[i]
          /\ \A j \in EnemyIdx :
                (\A i \in Slots : Tested(i) /\ Overlaps(bullets[i], enemies[j]) => ~bullets[i].fromPlayer)
                   => enemies'[j] = enemies[j]]_vars

\* CheckBulletCollisions has run with a player bullet inside the player's
\* bounds and an enemy bullet inside an active enemy's: the bullets are still
\* active, nobody is hurt
C23_Witness ==
    /\ pc = "frame" /\ frames > 0
    /\ ~player.isHit /\ player.health = PlayerHealth
    /\ \E i \in Slots : /\ bullets[i].active /\ bullets[i].fromPlayer
                         /\ StrikesPlayer(bullets[i], player)
    /\ \E k \in Slots, j \in EnemyIdx :
          /\ bullets[k].active /\ ~bullets[k].fromPlayer
          /\ StrikesEnemy(bullets[k], enemies[j])
          /\ enemies[j].health = EnemyHealth /\ ~enemies[j].isHit

\* player bullet i reaches the enemy loop and is inside the bounds of active enemy j
Hits(i, j) == Tested(i) /\ bullets[i].fromPlayer /\ StrikesEnemy(bullets[i], enemies[j])

\* enemy j is shielded from bullet i by an enemy of lower index that the
\* bullet overlaps too and that is active throughout the step
Shielded(i, j) == \E k \in EnemyIdx : k < j /\ Hits(i, k) /\ enemies'[k].active

\* C24: in CheckBulletCollisions a player bullet inside the bounds of active
\* enemies is deactivated, whether its target is in its hit window or not;
\* the lowest such enemy, when outside its hit window, loses one bullet's
\* damage, and an enemy that every bullet overlapping it reaches behind a
\* lower-index enemy is unchanged
C24_OneTarget ==
    [][pc = "collisions" =>
          /\ \A i \in Slots : (\E j \in EnemyIdx : Hits(i, j)) => ~bullets'[i].active
          /\ \A j \in EnemyIdx :
                /\ (\E i \in Slots : Hits(i, j) /\ \A k \in EnemyIdx : k < j => ~Hits(i, k))
                      /\ ~enemies[j].isHit
                      => enemies'[j].health = enemies[j].health - BulletDamage
                /\ (\A i \in Slots : Hits(i, j) => Shielded(i, j))
                      => enemies'[j] = enemies[j]]_vars

\* a player bullet went into the bounds of both enemies: it is deactivated,
\* enemy 0 has just been hurt and enemy 1 is as it was
C24_Witness ==
    /\ pc = "frame" /\ frames > 0
    /\ sinceHit.e[0] = 0 /\ enemies[0].active
    /\ enemies[1].active /\ enemies[1].health = EnemyHealth /\ ~enemies[1].isHit
    /\ \E i \in Slots : /\ i < bulletCount /\ ~bullets[i].active /\ bullets[i].fromPlayer
                         /\ StrikesEnemy(bullets[i], enemies[0])
                         /\ StrikesEnemy(bullets[i], enemies[1])

\* squared distance of a position from the world origin
OriginDistSqr(pos) == pos.x * pos.x + pos.y * pos.y + pos.z * pos.z

\* C25: UpdateBullets moves every active bullet below the counter by
\* direction * speed, whatever dt is, and leaves it active exactly when it is
\* then at most 50 units from the world origin; after UpdateBullets no active
\* bullet below the counter is farther than that
C25_AdvanceAndRange ==
    /\ [][pc = "bullets" =>
             \A i \in Slots :
                InLoop(i) =>
                   /\ bullets'[i].position.x - bullets[i].position.x = ScaleDir(bullets[i].direction.x, BULLET_SPEED)
                   /\ bullets'[i].position.y - bullets[i].position.y = ScaleDir(bullets[i].direction.y, BULLET_SPEED)
                   /\ bullets'[i].position.z - bullets[i].position.z = ScaleDir(bullets[i].direction.z, BULLET_SPEED)
                   /\ bullets'[i].active <=>
                         OriginDistSqr(bullets'[i].position) <= BulletMaxRange * BulletMaxRange]_vars
    /\ [](pc = "collisions" =>
             \A i \in Slots :
                InLoop(i) => OriginDistSqr(bullets[i].position) <= BulletMaxRange * BulletMaxRange)

\* after a long frame UpdateBullets has taken a bullet to exactly 50 units
\* from the origin, where it is still active
C25_Witness ==
    /\ pc = "collisions" /\ deltaTime = 500
    /\ bullets[0].active
    /\ bullets[0].position = Vec(4800, 1400, 0)
    /\ OriginDistSqr(bullets[0].position) = BulletMaxRange * BulletMaxRange

\* enemy j fires in the step: an UpdateEnemies that restarts its count
Fires(j) == pc = "enemies" /\ sinceShot'[j] = 0

\* C26: an enemy fires only when active, with its cooldown run down to <= 0
\* by the tick's dt and the player less than 10.0 away; it reloads to 2.0 s
\* plus a jitter within +-0.5 s, and at least 1.5 s of delta time have
\* accumulated since its previous shot; enemy bullets appear only by such
\* shots
C26_FireRate ==
    [][pc = "enemies" =>
          /\ \A j \in EnemyIdx :
                Fires(j) =>
                   /\ enemies[j].active
                   /\ enemies[j].shootTimer - deltaTime <= 0
                   /\ OriginDistSqr(Vector3Subtract(player.position, enemies[j].position))
                         < ShootRange * ShootRange
                   /\ enemies'[j].shootTimer >= ENEMY_SHOOT_COOLDOWN - 500
                   /\ enemies'[j].shootTimer <= ENEMY_SHOOT_COOLDOWN + 500
                   /\ sinceShot[j] = -1 \/ sinceShot[j] >= ENEMY_SHOOT_COOLDOWN - 500
          /\ Cardinality({i \in Slots : bullets'[i] # bullets[i]})
                <= Cardinality({j \in EnemyIdx : Fires(j)})]_vars

\* an enemy has just fired for the second time, 1.5 s after its first shot,
\* while the other, out of range with its cooldown run out, has never fired
C26_Witness ==
    /\ pc = "bullets"
    /\ \E j \in EnemyIdx :
          /\ sinceShot[j] = 0 /\ frames > 1
          /\ \E i \in Slots : bullets[i].active /\ ~bullets[i].fromPlayer
                               /\ bullets[i].position # Muzzle(enemies[j].position)
    /\ \E k \in EnemyIdx :
          /\ sinceShot[k] = -1 /\ enemies[k].shootTimer <= 0 /\ enemies[k].active
          /\ ~InRange(enemies[k], player)

\* the player is airborne above the floor and the coming tick's gravity and
\* velocity take the base below the floor
FallsBelowFloor ==
    /\ ~player.isGrounded /\ player.position.y > GroundLevel
    /\ player.position.y + player.velocity.y - PlayerGravity < GroundLevel

\* C27: the player's base is never below the ground level 0.5, and a tick
\* whose vertical integration would take it below ends with the base at
\* exactly 0.5, velocity.y = 0 and grounded = true
C27_FloorClamp ==
    /\ [](player.position.y >= GroundLevel)
    /\ [][PlayerStepped /\ FallsBelowFloor =>
             /\ player'.position.y = GroundLevel
             /\ player'.velocity.y = 0
             /\ player'.isGrounded]_vars

\* the first tick has brought the player down: at rest on the floor, grounded
C27_Witness ==
    /\ pc = "enemies" /\ frames = 1
    /\ player.position.y = GroundLevel /\ player.velocity.y = 0 /\ player.isGrounded

\* C28: every active bullet is at an index below bulletCount, so UpdateBullets
\* advances every active bullet and CheckBulletCollisions tests every active
\* bullet (one that fails the map test is deactivated)
C28_NoneSkipped ==
    /\ [](\A i \in Slots : bullets[i].active => i < bulletCount)
    /\ [][/\ pc = "bullets" =>
                \A i \in Slots :
                   bullets[i].active =>
                      /\ bullets'[i].position.x - bullets[i].position.x = ScaleDir(bullets[i].direction.x, bullets[i].speed)
                      /\ bullets'[i].position.y - bullets[i].position.y = ScaleDir(bullets[i].direction.y, bullets[i].speed)
                      /\ bullets'[i].position.z - bullets[i].position.z = ScaleDir(bullets[i].direction.z, bullets[i].speed)
          /\ pc = "collisions" =>
                \A i \in Slots :
                   bullets[i].active /\ CheckCollisionBulletWithMap(bullets[i]) => ~bullets'[i].active]_vars

\* a tick is over with an active bullet in the last slot, above a slot that
\* a hit has freed
C28_Witness ==
    /\ pc = "frame" /\ frames > 0
    /\ bullets[MAX_BULLETS - 1].active
    /\ \E k \in Slots : k < MAX_BULLETS - 1 /\ ~bullets[k].active /\ k < bulletCount

\* a bullet without a direction
Still(i) == bullets[i].direction = Vec(0, 0, 0)

\* C29: every bullet that becomes active is deactivated after finitely many
\* ticks, whatever its direction, the zero vector included
C29_Original == \A i \in 0..(PoolSize - 1) : [](bullets[i].active => <>(~bullets[i].active))

\* every bullet that has a direction ends
C29_MovingEnds == \A i \in 0..(PoolSize - 1) : [](bullets[i].active /\ ~Still(i) => <>(~bullets[i].active))

\* a bullet of the player without a direction is left as it is by every step
C29_StillStays ==
    [][\A i \in Slots :
          bullets[i].active /\ Still(i) /\ bullets[i].fromPlayer
             => bullets'[i] = bullets[i]]_vars

\* the player's box and the cell's box share more than an edge in x and z
Over(p, c) ==
    LET b == GetActorBoundingBox(p.position)
        cb == CellBounds(c[1], c[2])
    IN  /\ b.max.x > cb.min.x /\ b.min.x < cb.max.x
        /\ b.max.z > cb.min.z /\ b.min.z < cb.max.z

CellTop(c) == CellBounds(c[1], c[2]).max.y

\* C30: a player who is not rising, with the base above the top of a solid
\* cell and over that cell before and after the tick, has the base no more
\* than the tolerance below that top after the tick, and a base that has
\* come down to the top or below is on the top, at rest and grounded
C30_Original ==
    [][\A c \in cubicmap :
          /\ pc = "frame" /\ pc' = "enemies"
          /\ player.velocity.y <= 0 /\ player.position.y > CellTop(c)
          /\ Over(player, c) /\ Over(player', c)
          => /\ player'.position.y >= CellTop(c) - GroundTolerance
             /\ player'.position.y <= CellTop(c)
                   => /\ player'.position.y = CellTop(c)
                      /\ player'.velocity.y = 0
                      /\ player'.isGrounded]_vars

\* the player after the horizontal move of the step, before the jump and the
\* physics of the same frame change the height
AfterMove == [player EXCEPT !.position.x = player'.position.x, !.position.z = player'.position.z]

\* C31: a player whose map-collision test is false before the horizontal
\* move has it false after the move is resolved, and so has every active enemy
C31_MoveKeepsFree ==
    [][/\ PlayerStepped /\ ~CheckCollisionPlayerWithMap(player).collision
             => ~CheckCollisionPlayerWithMap(AfterMove).collision
       /\ pc = "enemies" =>
             \A j \in EnemyIdx :
                enemies[j].active /\ ~CheckCollisionEnemyWithMap(enemies[j].position)
                   => ~CheckCollisionEnemyWithMap(enemies'[j].position)]_vars

\* the player's move of the frame has run into a wall cell and was taken
\* back, and a free enemy is about to move with an X step that collides
C31_Witness ==
    /\ pc = "enemies" /\ keys.right /\ keys.down
    /\ ~CheckCollisionPlayerWithMap(player).collision
    /\ CheckCollisionPlayerWithMap(ZOnly(XOnly(player, keys), keys)).collision
    /\ \E j \in EnemyIdx :
          /\ Walks(j)
          /\ ~CheckCollisionEnemyWithMap(enemies[j].position)
          /\ CheckCollisionEnemyWithMap(XMoved(j))

\* C32: a frame in which the game is paused once the key P has been handled
\* changes neither the player, the enemies, the bullets, the bullet counter
\* nor the shooting timer, and a tick that ends with the player's health at
\* or below 0 ends with the game paused
C32_PausedFrozen ==
    [][/\ pc = "frame" /\ gameState' = "GAME_PAUSED"
             => UNCHANGED <<player, enemies, bullets, bulletCount, canShoot, shootTimer>>
       /\ pc = "collisions" /\ player'.health <= 0 => gameState' = "GAME_PAUSED"]_vars

\* the run has come to its last frame with the game paused over a player
\* without health whose hit window is running, and bullets in flight
C32_Witness ==
    /\ pc = "frame" /\ frames = SiegeFrames
    /\ gameState = "GAME_PAUSED" /\ player.health <= 0 /\ player.isHit
    /\ \E i \in Slots : bullets[i].active

====
